---- MODULE Spec2Model ----
(***************************************************************************)
(* A model of seqmagick/transform.py: the record-stream transforms and the *)
(* buffered re-iteration helper.  Each transform is modelled on its own    *)
(* variables and verified under its own specification; the variables of the*)
(* transforms a specification does not exercise stay at their idle values. *)
(***************************************************************************)
EXTENDS Integers, Sequences, FiniteSets, TLC

VARIABLES
    \* _record_buffer
    buf_records,    \* the records not yet pulled from the input stream
    buf_input,      \* the whole input stream (kept to state the properties)
    buf_tf,         \* the spooled temporary file: a sequence of pickle frames
    buf_pos,        \* the file position of tf, shared by every reader
    buf_memo,       \* the Pickler's memo: record object -> memo key
    buf_scope,      \* "filling" | "open" | "closed"
    buf_iters,      \* the generators returned by record_iter()
    \* head
    head_input,     \* the whole upstream (kept to state the properties)
    head_records,   \* what the upstream has not handed out yet
    head_n,         \* the argument head: islice's stop
    head_cnt,       \* islice's count of items taken
    head_out,       \* the records the output has yielded
    head_requests,  \* how many times next() was called on the upstream
    head_last,      \* outcome of the last next() on the output
    \* tail
    tail_input, tail_records, tail_n, tail_count, tail_position, tail_out, tail_pc,
    \* deduplicate_sequences
    ds_input, ds_records, ds_checksums, ds_out, ds_pc, ds_cur, ds_file,
    \* deduplicate_taxa
    dt_input, dt_records, dt_taxa, dt_out, dt_warned,
    \* isolate_region
    ir_seq, ir_start, ir_end, ir_out, ir_pc,
    \* strip_range
    sr_in, sr_out, sr_pc,
    \* squeeze / gap_proportion
    sq_stats_in, sq_stats, sq_input, sq_records, sq_threshold,
    sq_aln_len, sq_gaps, sq_i, sq_keep, sq_out, sq_pc,
    \* CodonWarningDict
    cw_table, cw_log, cw_history,
    \* reverse_sequences
    rv_in, rv_mid, rv_out, rv_pulled, rv_yielded,
    \* _update_id, name_append_suffix, name_insert_prefix
    up_rec,         \* the record, as the transforms applied so far left it
    up_prev,        \* the record before the last transform
    up_new_id,      \* new_id of the last transform
    up_steps,       \* transforms applied
    up_pc           \* "ok" | "error": re.sub raised

bufVars  == <<buf_records, buf_input, buf_tf, buf_pos, buf_memo, buf_scope, buf_iters>>
headVars == <<head_input, head_records, head_n, head_cnt, head_out, head_requests, head_last>>
tailVars == <<tail_input, tail_records, tail_n, tail_count, tail_position, tail_out, tail_pc>>
dsVars   == <<ds_input, ds_records, ds_checksums, ds_out, ds_pc, ds_cur, ds_file>>
dtVars   == <<dt_input, dt_records, dt_taxa, dt_out, dt_warned>>
irVars   == <<ir_seq, ir_start, ir_end, ir_out, ir_pc>>
srVars   == <<sr_in, sr_out, sr_pc>>
sqVars   == <<sq_stats_in, sq_stats, sq_input, sq_records, sq_threshold,
              sq_aln_len, sq_gaps, sq_i, sq_keep, sq_out, sq_pc>>
cwVars   == <<cw_table, cw_log, cw_history>>
rvVars   == <<rv_in, rv_mid, rv_out, rv_pulled, rv_yielded>>
upVars   == <<up_rec, up_prev, up_new_id, up_steps, up_pc>>

vars == <<bufVars, headVars, tailVars, dsVars, dtVars, irVars, srVars, sqVars,
          cwVars, rvVars, upVars>>

----------------------------------------------------------------------------
(* A specification exercises one transform; the variables of the others    *)
(* keep the values below.                                                  *)

BufIdle ==
    /\ buf_records = <<>> /\ buf_input = <<>> /\ buf_tf = <<>> /\ buf_pos = 0
    /\ buf_memo = <<>> /\ buf_scope = "idle" /\ buf_iters = <<>>

HeadIdle ==
    /\ head_input = <<>> /\ head_records = <<>> /\ head_n = 0 /\ head_cnt = 0
    /\ head_out = <<>> /\ head_requests = 0 /\ head_last = "idle"

TailIdle ==
    /\ tail_input = <<>> /\ tail_records = <<>> /\ tail_n = 0 /\ tail_count = 0
    /\ tail_position = 0 /\ tail_out = <<>> /\ tail_pc = "idle"

DsIdle ==
    /\ ds_input = <<>> /\ ds_records = <<>> /\ ds_checksums = <<>> /\ ds_out = <<>>
    /\ ds_pc = "idle" /\ ds_cur = <<>> /\ ds_file = <<>>

DtIdle ==
    /\ dt_input = <<>> /\ dt_records = <<>> /\ dt_taxa = {} /\ dt_out = <<>>
    /\ dt_warned = <<>>

IrIdle ==
    /\ ir_seq = <<>> /\ ir_start = 0 /\ ir_end = 0 /\ ir_out = <<>> /\ ir_pc = "idle"

SrIdle == sr_in = <<>> /\ sr_out = <<>> /\ sr_pc = "idle"

SqIdle ==
    /\ sq_stats_in = <<>> /\ sq_stats = <<>> /\ sq_input = <<>> /\ sq_records = <<>>
    /\ sq_threshold = <<>> /\ sq_aln_len = 0 /\ sq_gaps = <<>> /\ sq_i = 0
    /\ sq_keep = <<>> /\ sq_out = <<>> /\ sq_pc = "idle"

CwIdle == cw_table = <<>> /\ cw_log = <<>> /\ cw_history = <<>>

RvIdle ==
    /\ rv_in = <<>> /\ rv_mid = <<>> /\ rv_out = <<>> /\ rv_pulled = <<>>
    /\ rv_yielded = <<"idle">>

UpIdle ==
    /\ up_rec = <<>> /\ up_prev = <<>> /\ up_new_id = <<>> /\ up_steps = 0
    /\ up_pc = "idle"

OthersIdle(c) ==
    /\ IF c = "buf"  THEN TRUE ELSE BufIdle
    /\ IF c = "head" THEN TRUE ELSE HeadIdle
    /\ IF c = "tail" THEN TRUE ELSE TailIdle
    /\ IF c = "ds"   THEN TRUE ELSE DsIdle
    /\ IF c = "dt"   THEN TRUE ELSE DtIdle
    /\ IF c = "ir"   THEN TRUE ELSE IrIdle
    /\ IF c = "sr"   THEN TRUE ELSE SrIdle
    /\ IF c = "sq"   THEN TRUE ELSE SqIdle
    /\ IF c = "cw"   THEN TRUE ELSE CwIdle
    /\ IF c = "rv"   THEN TRUE ELSE RvIdle
    /\ IF c = "up"   THEN TRUE ELSE UpIdle

OthersUnchanged(c) ==
    /\ IF c = "buf"  THEN TRUE ELSE UNCHANGED bufVars
    /\ IF c = "head" THEN TRUE ELSE UNCHANGED headVars
    /\ IF c = "tail" THEN TRUE ELSE UNCHANGED tailVars
    /\ IF c = "ds"   THEN TRUE ELSE UNCHANGED dsVars
    /\ IF c = "dt"   THEN TRUE ELSE UNCHANGED dtVars
    /\ IF c = "ir"   THEN TRUE ELSE UNCHANGED irVars
    /\ IF c = "sr"   THEN TRUE ELSE UNCHANGED srVars
    /\ IF c = "sq"   THEN TRUE ELSE UNCHANGED sqVars
    /\ IF c = "cw"   THEN TRUE ELSE UNCHANGED cwVars
    /\ IF c = "rv"   THEN TRUE ELSE UNCHANGED rvVars
    /\ IF c = "up"   THEN TRUE ELSE UNCHANGED upVars

----------------------------------------------------------------------------
(* Bounds of the model *)

MaxRecords == 3     \* longest input stream
MaxIters == 2       \* generators obtained from one record buffer

----------------------------------------------------------------------------
(* Helpers on sequences *)

Min(a, b) == IF a <= b THEN a ELSE b
Max(a, b) == IF a >= b THEN a ELSE b

SeqsUpTo(S, n) == UNION {[1..k -> S] : k \in 0..n}

IsPrefix(s, t) == Len(s) <= Len(t) /\ SubSeq(t, 1, Len(s)) = s

Reverse(s) == [k \in 1..Len(s) |-> s[Len(s) + 1 - k]]

\* Python slicing s[a:b] for 0 <= a, 0 <= b (0-based, end exclusive, clamped)
Slice(s, a, b) == SubSeq(s, Min(a, Len(s)) + 1, Min(b, Len(s)))

----------------------------------------------------------------------------
(* _record_buffer (transform.py 26-48)                                     *)

\* The record objects a stream can carry; the same object may occur twice.
BufObjects == {"r1", "r2"}

\* pickler.dump(record): a Pickler kept over several dumps writes an object
\* it has already written as a reference to its memo entry.
PickleFrame(memo, record, key) ==
    IF record \in DOMAIN memo
    THEN [op |-> "get", key |-> memo[record]]
    ELSE [op |-> "put", key |-> key, obj |-> record]

PicklerMemoAfter(memo, record, key) ==
    IF record \in DOMAIN memo THEN memo
    ELSE [r \in DOMAIN memo \cup {record} |-> IF r = record THEN key ELSE memo[r]]

\* unpickler.load() of one frame with the reader's memo: the object, or a
\* failure when the frame refers to a memo entry this reader never loaded.
UnpickleOk(memo, frame) == frame.op = "put" \/ frame.key \in DOMAIN memo

UnpickleObj(memo, frame) ==
    IF frame.op = "put" THEN frame.obj ELSE memo[frame.key]

UnpicklerMemoAfter(memo, frame) ==
    IF frame.op = "put"
    THEN [k \in DOMAIN memo \cup {frame.key} |->
             IF k = frame.key THEN frame.obj ELSE memo[k]]
    ELSE memo

EmptyFn == <<>>

BufInit ==
    /\ buf_input \in SeqsUpTo(BufObjects, MaxRecords)
    /\ buf_records = buf_input
    /\ buf_tf = <<>>
    /\ buf_pos = 0
    /\ buf_memo = EmptyFn
    /\ buf_scope = "filling"
    /\ buf_iters = <<>>
    /\ OthersIdle("buf")

\* for record in records: pickler.dump(record)
BufDump ==
    /\ buf_scope = "filling"
    /\ buf_records /= <<>>
    /\ LET record == Head(buf_records)
           key == Len(buf_tf) + 1
       IN /\ buf_tf' = Append(buf_tf, PickleFrame(buf_memo, record, key))
          /\ buf_memo' = PicklerMemoAfter(buf_memo, record, key)
          /\ buf_pos' = buf_pos + 1
    /\ buf_records' = Tail(buf_records)
    /\ UNCHANGED <<buf_input, buf_scope, buf_iters>>
    /\ OthersUnchanged("buf")

\* yield record_iter: the with-block of the caller starts
BufYieldFactory ==
    /\ buf_scope = "filling"
    /\ buf_records = <<>>
    /\ buf_scope' = "open"
    /\ UNCHANGED <<buf_records, buf_input, buf_tf, buf_pos, buf_memo, buf_iters>>
    /\ OthersUnchanged("buf")

\* record_iter(): a generator object; its body has not started
BufCallFactory ==
    /\ buf_scope = "open"
    /\ Len(buf_iters) < MaxIters
    /\ buf_iters' = Append(buf_iters,
                           [state |-> "created", memo |-> EmptyFn, out |-> <<>>])
    /\ UNCHANGED <<buf_records, buf_input, buf_tf, buf_pos, buf_memo, buf_scope>>
    /\ OthersUnchanged("buf")

\* The position the generator reads from: its first next() runs tf.seek(0),
\* every later one reads wherever the shared file position is.
BufReadPos(it) == IF it.state = "created" THEN 0 ELSE buf_pos

\* next(it) on generator i
BufIterNext(i) ==
    /\ buf_scope \in {"open", "closed"}
    /\ i \in 1..Len(buf_iters)
    /\ buf_iters[i].state \in {"created", "running"}
    /\ LET it == buf_iters[i]
           pos == BufReadPos(it)
       IN IF buf_scope = "closed"
          THEN \* I/O operation on closed file
               /\ buf_iters' = [buf_iters EXCEPT ![i].state = "closed_error"]
               /\ UNCHANGED buf_pos
          ELSE IF pos >= Len(buf_tf)
          THEN \* EOFError: break
               /\ buf_iters' = [buf_iters EXCEPT ![i].state = "done"]
               /\ buf_pos' = pos
          ELSE IF UnpickleOk(it.memo, buf_tf[pos + 1])
          THEN /\ buf_iters' = [buf_iters EXCEPT
                    ![i].state = "running",
                    ![i].memo = UnpicklerMemoAfter(it.memo, buf_tf[pos + 1]),
                    ![i].out = Append(it.out, UnpickleObj(it.memo, buf_tf[pos + 1]))]
               /\ buf_pos' = pos + 1
          ELSE \* the unpickler raises on the dangling memo reference
               /\ buf_iters' = [buf_iters EXCEPT ![i].state = "load_error"]
               /\ buf_pos' = pos + 1
    /\ UNCHANGED <<buf_records, buf_input, buf_tf, buf_memo, buf_scope>>
    /\ OthersUnchanged("buf")

\* the caller's with-block ends: the temporary file is closed
BufExitScope ==
    /\ buf_scope = "open"
    /\ buf_scope' = "closed"
    /\ UNCHANGED <<buf_records, buf_input, buf_tf, buf_pos, buf_memo, buf_iters>>
    /\ OthersUnchanged("buf")

BufNext ==
    \/ BufDump
    \/ BufYieldFactory
    \/ BufCallFactory
    \/ \E i \in 1..MaxIters : BufIterNext(i)
    \/ BufExitScope

SpecBuffer == BufInit /\ [][BufNext]_vars

\* C1: inside the scope of _record_buffer every iterator obtained from the
\* factory yields exactly the records of the input stream, in order, none
\* missing or repeated, whatever other iterators of the factory did before
\* or in between: what an iterator has yielded is always a prefix of the
\* input, no load fails, and an exhausted iterator has yielded all of it.
C1_EveryIteratorReplaysInput ==
    buf_scope = "open" =>
        \A i \in 1..Len(buf_iters) :
            /\ IsPrefix(buf_iters[i].out, buf_input)
            /\ buf_iters[i].state /= "load_error"
            /\ buf_iters[i].state = "done" => buf_iters[i].out = buf_input

----------------------------------------------------------------------------
(* head (transform.py 388-394): itertools.islice(records, head)            *)

Objects == {"r1", "r2"}
HeadCounts == 0..(MaxRecords + 1)

HeadInit ==
    /\ head_input \in SeqsUpTo(Objects, MaxRecords)
    /\ head_records = head_input
    /\ head_n \in HeadCounts
    /\ head_cnt = 0
    /\ head_out = <<>>
    /\ head_requests = 0
    /\ head_last = "none"
    /\ OthersIdle("head")

\* islice with start 0 and step 1 ends once it has taken stop items,
\* before it asks the upstream for anything.
IsliceStopsLate(cnt, stop) == cnt > stop
IsliceStops(cnt, stop) == cnt >= stop

\* next() on the output ends the stream without touching the upstream
HeadNextStop ==
    /\ head_last /= "idle"
    /\ IsliceStops(head_cnt, head_n)
    /\ head_last' = "stop"
    /\ UNCHANGED <<head_input, head_records, head_n, head_cnt, head_out, head_requests>>
    /\ OthersUnchanged("head")

\* next() on the output pulls one record from the upstream and yields it
HeadNextItem ==
    /\ head_last /= "idle"
    /\ ~IsliceStops(head_cnt, head_n)
    /\ head_records /= <<>>
    /\ head_requests' = head_requests + 1
    /\ head_out' = Append(head_out, Head(head_records))
    /\ head_records' = Tail(head_records)
    /\ head_cnt' = head_cnt + 1
    /\ head_last' = "item"
    /\ UNCHANGED <<head_input, head_n>>
    /\ OthersUnchanged("head")

\* next() on the output asks the upstream, which is exhausted
HeadNextUpstreamEnd ==
    /\ head_last /= "idle"
    /\ head_requests <= MaxRecords + 1
    /\ ~IsliceStops(head_cnt, head_n)
    /\ head_records = <<>>
    /\ head_requests' = head_requests + 1
    /\ head_last' = "stop"
    /\ UNCHANGED <<head_input, head_records, head_n, head_cnt, head_out>>
    /\ OthersUnchanged("head")

HeadNext == HeadNextStop \/ HeadNextItem \/ HeadNextUpstreamEnd

SpecHead == HeadInit /\ [][HeadNext]_vars

HeadPulled == Len(head_input) - Len(head_records)

\* C2: head(records, N) yields the first min(N, length) records in order and
\* never pulls more than N records from the upstream: what was yielded is
\* what was pulled, at most N records, a prefix of the upstream; when the
\* output has ended it is exactly the first min(N, length) records; and once
\* N records are out the upstream has been asked exactly N times, however
\* many further requests the output received.
C2_HeadPullsAtMostN ==
    head_last /= "idle" =>
        /\ HeadPulled <= head_n
        /\ Len(head_out) = HeadPulled
        /\ IsPrefix(head_out, head_input)
        /\ head_last = "stop" =>
               head_out = SubSeq(head_input, 1, Min(head_n, Len(head_input)))
        /\ Len(head_out) = head_n => head_requests = head_n

\* a request arrived after the N-th record of a longer upstream was yielded
C2_Witness ==
    /\ head_last = "stop"
    /\ head_n > 0
    /\ Len(head_out) = head_n
    /\ Len(head_input) > head_n

----------------------------------------------------------------------------
(* tail (transform.py 397-410)                                             *)

TailInit ==
    /\ tail_input \in SeqsUpTo(Objects, MaxRecords)
    /\ tail_records = tail_input
    /\ tail_n \in 0..(MaxRecords + 1)
    /\ tail_count \in 0..(MaxRecords + 1)   \* record_count, given by the caller
    /\ tail_position = 0
    /\ tail_out = <<>>
    /\ tail_pc = "loop"
    /\ OthersIdle("tail")

\* start = record_count - tail
TailStart == tail_count - tail_n

\* if position < start
TailSkipsOneMore(position, start) == position <= start
TailSkips(position, start) == position < start

\* position += 1; continue
TailSkip ==
    /\ tail_pc = "loop"
    /\ tail_records /= <<>>
    /\ TailSkips(tail_position, TailStart)
    /\ tail_position' = tail_position + 1
    /\ tail_records' = Tail(tail_records)
    /\ UNCHANGED <<tail_input, tail_n, tail_count, tail_out, tail_pc>>
    /\ OthersUnchanged("tail")

\* else: yield record
TailYield ==
    /\ tail_pc = "loop"
    /\ tail_records /= <<>>
    /\ ~TailSkips(tail_position, TailStart)
    /\ tail_out' = Append(tail_out, Head(tail_records))
    /\ tail_records' = Tail(tail_records)
    /\ UNCHANGED <<tail_input, tail_n, tail_count, tail_position, tail_pc>>
    /\ OthersUnchanged("tail")

\* the upstream is exhausted: the generator returns
TailEnd ==
    /\ tail_pc = "loop"
    /\ tail_records = <<>>
    /\ tail_pc' = "done"
    /\ UNCHANGED <<tail_input, tail_records, tail_n, tail_count, tail_position, tail_out>>
    /\ OthersUnchanged("tail")

TailNext == TailSkip \/ TailYield \/ TailEnd

SpecTail == TailInit /\ [][TailNext]_vars

\* the last k records of s
LastRecords(s, k) == SubSeq(s, Len(s) - Min(k, Len(s)) + 1, Len(s))

\* C10: when record_count is the number of records of the stream, tail skips
\* the first record_count - N records and yields exactly the last
\* min(N, record_count) records in input order (all of them when
\* N >= record_count, none when N = 0).
C10_TailYieldsLastN ==
    (tail_pc = "done" /\ tail_count = Len(tail_input)) =>
        /\ tail_out = LastRecords(tail_input, tail_n)
        /\ Len(tail_out) = Min(tail_n, tail_count)
        /\ tail_position = Max(tail_count - tail_n, 0)
        /\ tail_n >= tail_count => tail_out = tail_input
        /\ tail_n = 0 => tail_out = <<>>

\* a finished run that skipped some records and yielded some
C10_Witness ==
    /\ tail_pc = "done"
    /\ tail_count = Len(tail_input)
    /\ tail_position > 0
    /\ tail_out /= <<>>
    /\ tail_n < tail_count

----------------------------------------------------------------------------
(* deduplicate_sequences (transform.py 64-83)                              *)

DsIds == {"A", "B"}
DsSeqs == {<<"A", "C">>, <<"a", "c">>, <<"T", "T">>}
DsRecordPool == [id : DsIds, seq : DsSeqs]

UpperChar(c) ==
    CASE c = "a" -> "A" [] c = "c" -> "C" [] c = "g" -> "G" [] c = "t" -> "T"
      [] OTHER -> c

\* seguid(record.seq): the digest of the upper-cased sequence; the digest is
\* represented by the content it is computed from.
Seguid(seq) == [k \in 1..Len(seq) |-> UpperChar(seq[k])]

\* checksum_sequences[checksum] of a defaultdict(list)
DsLookup(d, checksum) == IF checksum \in DOMAIN d THEN d[checksum] ELSE <<>>

\* sequences.append(record.id), seen through checksum_sequences
DsAppendUnlessDuplicate(d, checksum, id) ==
    [k \in DOMAIN d \cup {checksum} |->
        IF k = checksum
        THEN (IF DsLookup(d, k) = <<>> THEN <<id>> ELSE d[k])
        ELSE d[k]]
DsAppend(d, checksum, id) ==
    [k \in DOMAIN d \cup {checksum} |->
        IF k = checksum THEN Append(DsLookup(d, k), id) ELSE d[k]]

DsInit ==
    /\ ds_input \in SeqsUpTo(DsRecordPool, MaxRecords)
    /\ ds_records = ds_input
    /\ ds_checksums = <<>>
    /\ ds_out = <<>>
    /\ ds_pc = "loop"
    /\ ds_cur = <<>>
    /\ \E given \in BOOLEAN : ds_file = [given |-> given, lines |-> <<>>]
    /\ OthersIdle("ds")

\* one pass of the loop for a record whose checksum list is empty:
\* the generator stops at yield record
DsYield ==
    /\ ds_pc = "loop"
    /\ ds_records /= <<>>
    /\ LET record == Head(ds_records)
       IN /\ DsLookup(ds_checksums, Seguid(record.seq)) = <<>>
          /\ ds_out' = Append(ds_out, record)
          /\ ds_cur' = <<record>>
    /\ ds_records' = Tail(ds_records)
    /\ ds_pc' = "yielded"
    /\ UNCHANGED <<ds_input, ds_checksums, ds_file>>
    /\ OthersUnchanged("ds")

\* the consumer asks for the next record: sequences.append(record.id)
DsResume ==
    /\ ds_pc = "yielded"
    /\ ds_checksums' = DsAppend(ds_checksums, Seguid(ds_cur[1].seq), ds_cur[1].id)
    /\ ds_cur' = <<>>
    /\ ds_pc' = "loop"
    /\ UNCHANGED <<ds_input, ds_records, ds_out, ds_file>>
    /\ OthersUnchanged("ds")

\* one pass of the loop for a record whose checksum was seen
DsSuppress ==
    /\ ds_pc = "loop"
    /\ ds_records /= <<>>
    /\ LET record == Head(ds_records)
       IN /\ DsLookup(ds_checksums, Seguid(record.seq)) /= <<>>
          /\ ds_checksums' = DsAppend(ds_checksums, Seguid(record.seq), record.id)
    /\ ds_records' = Tail(ds_records)
    /\ UNCHANGED <<ds_input, ds_out, ds_pc, ds_cur, ds_file>>
    /\ OthersUnchanged("ds")

Orderings(S) == {f \in [1..Cardinality(S) -> S] : \A x \in S : \E k \in DOMAIN f : f[k] = x}

\* the loop is over: one line per checksum is written to out_file, in the
\* order the dictionary iterates its values
DsReport ==
    /\ ds_pc = "loop"
    /\ ds_records = <<>>
    /\ IF ds_file.given
       THEN \E order \in Orderings(DOMAIN ds_checksums) :
               ds_file' = [ds_file EXCEPT
                              !.lines = [k \in DOMAIN order |-> ds_checksums[order[k]]]]
       ELSE UNCHANGED ds_file
    /\ ds_pc' = "done"
    /\ UNCHANGED <<ds_input, ds_records, ds_checksums, ds_out, ds_cur>>
    /\ OthersUnchanged("ds")

DsNext == DsYield \/ DsResume \/ DsSuppress \/ DsReport

SpecDedupSeq == DsInit /\ [][DsNext]_vars

RECURSIVE AtIndices(_, _, _)
\* the elements of s at the positions of keep that are <= n, in order
AtIndices(s, keep, n) ==
    IF n = 0 THEN <<>>
    ELSE IF n \in keep THEN Append(AtIndices(s, keep, n - 1), s[n])
         ELSE AtIndices(s, keep, n - 1)

\* positions of the records no earlier record shares the checksum with
DsFirstPositions(input) ==
    {i \in 1..Len(input) :
        \A j \in 1..(i - 1) : Seguid(input[j].seq) /= Seguid(input[i].seq)}

DsPositionsOf(input, key) == {i \in 1..Len(input) : Seguid(input[i].seq) = key}

DsIdsOf(input) == [i \in 1..Len(input) |-> input[i].id]

RECURSIVE SumLens(_, _)
SumLens(d, keys) ==
    IF keys = {} THEN 0
    ELSE LET k == CHOOSE x \in keys : TRUE
         IN Len(d[k]) + SumLens(d, keys \ {k})

\* C3: deduplicate_sequences emits a record iff no earlier record has the
\* same checksum, in input order; once the input is exhausted the mapping
\* holds for every checksum seen the ids of all input records with that
\* checksum, in input order, duplicates included, so the groups hold every
\* input id once per record; the report, when written, has one line per group.
C3_DedupSequences ==
    LET consumed == SubSeq(ds_input, 1, Len(ds_input) - Len(ds_records))
    IN /\ ds_pc \in {"loop", "yielded", "done"} =>
              ds_out = AtIndices(consumed, DsFirstPositions(consumed), Len(consumed))
       /\ ds_pc = "done" =>
              /\ DOMAIN ds_checksums = {Seguid(ds_input[i].seq) : i \in 1..Len(ds_input)}
              /\ \A key \in DOMAIN ds_checksums :
                     ds_checksums[key] =
                         AtIndices(DsIdsOf(ds_input), DsPositionsOf(ds_input, key),
                                   Len(ds_input))
              /\ SumLens(ds_checksums, DOMAIN ds_checksums) = Len(ds_input)
              /\ ds_file.given =>
                     /\ Len(ds_file.lines) = Cardinality(DOMAIN ds_checksums)
                     /\ \A key \in DOMAIN ds_checksums :
                            \E k \in DOMAIN ds_file.lines :
                                ds_file.lines[k] = ds_checksums[key]

\* an exhausted input with a suppressed duplicate whose id is in its group
C3_Witness ==
    /\ ds_pc = "done"
    /\ Len(ds_out) < Len(ds_input)
    /\ Len(ds_out) >= 2
    /\ \E key \in DOMAIN ds_checksums : ds_checksums[key] = <<"A", "B">>

----------------------------------------------------------------------------
(* deduplicate_taxa (transform.py 86-108)                                  *)

\* record ids, as sequences of characters:
\* 9|x  9|y  09|z  10|z  x|9  9  |x  1|9|x
DtIds == { <<"9", "|", "x">>, <<"9", "|", "y">>, <<"0", "9", "|", "z">>,
           <<"1", "0", "|", "z">>, <<"x", "|", "9">>, <<"9">>, <<"|", "x">>,
           <<"1", "|", "9", "|", "x">> }

Digits == {"0", "1", "2", "3", "4", "5", "6", "7", "8", "9"}

DigitValue(c) ==
    CASE c = "0" -> 0 [] c = "1" -> 1 [] c = "2" -> 2 [] c = "3" -> 3 [] c = "4" -> 4
      [] c = "5" -> 5 [] c = "6" -> 6 [] c = "7" -> 7 [] c = "8" -> 8 [] c = "9" -> 9

RECURSIVE DecimalValue(_)
\* the number a non-empty run of decimal digits denotes
DecimalValue(s) ==
    IF s = <<>> THEN 0
    ELSE 10 * DecimalValue(SubSeq(s, 1, Len(s) - 1)) + DigitValue(s[Len(s)])

\* int(text) succeeds on a non-empty run of digits (no sign or blank occurs
\* in the ids of the model)
IntParses(s) == s /= <<>> /\ \A k \in 1..Len(s) : s[k] \in Digits

Contains(s, c) == \E k \in 1..Len(s) : s[k] = c

RECURSIVE FirstField(_, _)
\* text.split(sep)[0]
FirstField(s, sep) ==
    IF s = <<>> \/ Head(s) = sep THEN <<>>
    ELSE <<Head(s)>> \o FirstField(Tail(s), sep)

IntKey(n) == [kind |-> "int", num |-> n, raw |-> <<>>]
StrKey(id) == [kind |-> "str", num |-> 0, raw |-> id]

\* the parse that fails leaves taxid = record.id
DtParseFails(id) == Contains(id, "|") /\ ~IntParses(FirstField(id, "|"))

\* taxid of a record: lines 96-104
TaxIdRaw(id) == StrKey(id)
TaxId(id) ==
    IF Contains(id, "|")
    THEN (IF IntParses(FirstField(id, "|"))
          THEN IntKey(DecimalValue(FirstField(id, "|")))
          ELSE StrKey(id))
    ELSE StrKey(id)

DtInit ==
    /\ dt_input \in SeqsUpTo(DtIds, MaxRecords)
    /\ dt_records = dt_input
    /\ dt_taxa = {}
    /\ dt_out = <<>>
    /\ dt_warned = <<>>
    /\ OthersIdle("dt")

DtWarnings(id) == IF DtParseFails(id) THEN Append(dt_warned, id) ELSE dt_warned

\* if taxid in taxa: continue
DtSkip ==
    /\ dt_records /= <<>>
    /\ TaxId(Head(dt_records)) \in dt_taxa
    /\ dt_warned' = DtWarnings(Head(dt_records))
    /\ dt_records' = Tail(dt_records)
    /\ UNCHANGED <<dt_input, dt_taxa, dt_out>>
    /\ OthersUnchanged("dt")

\* taxa.add(taxid); yield record
DtYield ==
    /\ dt_records /= <<>>
    /\ TaxId(Head(dt_records)) \notin dt_taxa
    /\ dt_taxa' = dt_taxa \cup {TaxId(Head(dt_records))}
    /\ dt_out' = Append(dt_out, Head(dt_records))
    /\ dt_warned' = DtWarnings(Head(dt_records))
    /\ dt_records' = Tail(dt_records)
    /\ UNCHANGED dt_input
    /\ OthersUnchanged("dt")

DtNext == DtSkip \/ DtYield

SpecDedupTaxa == DtInit /\ [][DtNext]_vars

\* the key as the specification words it: the integer before the first '|' when
\* there is a '|' and the text before the first one is an integer, the raw
\* id otherwise
DtClaimedKey(id) ==
    LET bars == {p \in 1..Len(id) : id[p] = "|"}
    IN IF bars = {} THEN StrKey(id)
       ELSE LET first == CHOOSE p \in bars : \A q \in bars : p <= q
                prefix == SubSeq(id, 1, first - 1)
            IN IF prefix /= <<>> /\ \A k \in 1..Len(prefix) : prefix[k] \in Digits
               THEN IntKey(DecimalValue(prefix))
               ELSE StrKey(id)

DtFirstPositions(input) ==
    {i \in 1..Len(input) :
        \A j \in 1..(i - 1) : DtClaimedKey(input[j]) /= DtClaimedKey(input[i])}

\* C4: deduplicate_taxa emits a record iff no earlier record has the same
\* key (the integer before the first '|' when it parses, the raw id
\* otherwise; a failed parse is no error), emitted records keep their input
\* order and no two of them have the same key.
C4_DedupTaxa ==
    LET consumed == SubSeq(dt_input, 1, Len(dt_input) - Len(dt_records))
    IN  /\ dt_out = AtIndices(consumed, DtFirstPositions(consumed), Len(consumed))
        /\ \A a, b \in 1..Len(dt_out) :
               a /= b => DtClaimedKey(dt_out[a]) /= DtClaimedKey(dt_out[b])
        /\ dt_taxa = {DtClaimedKey(consumed[i]) : i \in 1..Len(consumed)}

\* a record suppressed because an earlier id with another spelling has the
\* same integer key, after a record whose prefix does not parse was kept
C4_Witness ==
    /\ dt_records = <<>>
    /\ dt_input = << <<"x", "|", "9">>, <<"9", "|", "x">>, <<"0", "9", "|", "z">> >>
    /\ dt_out = << <<"x", "|", "9">>, <<"9", "|", "x">> >>

----------------------------------------------------------------------------
(* isolate_region (transform.py 152-168)                                   *)

MaxSeqLen == 3      \* longest sequence of a record

IrSymbols == {"A", "C", "-"}

\* gap_char * n: the empty string when n <= 0
Repeat(c, n) == [k \in 1..Max(n, 0) |-> c]

IrInit ==
    /\ ir_seq \in SeqsUpTo(IrSymbols, MaxSeqLen)
    /\ ir_start \in 0..(MaxSeqLen + 1)
    /\ ir_end \in 0..(MaxSeqLen + 2)
    /\ ir_out = <<>>
    /\ ir_pc = "start"
    /\ OthersIdle("ir")

\* if end <= start: raise ValueError
IrRaise ==
    /\ ir_pc = "start"
    /\ ir_end <= ir_start
    /\ ir_pc' = "ValueError"
    /\ UNCHANGED <<ir_seq, ir_start, ir_end, ir_out>>
    /\ OthersUnchanged("ir")

\* start_gap + str(seq[start:end]) + end_gap
IsolateRegion(seq, start, end) ==
    Repeat("-", start) \o Slice(seq, start, end) \o Repeat("-", Len(seq) - end)

\* one pass of the loop: the record's sequence is replaced and yielded
IrYield ==
    /\ ir_pc = "start"
    /\ ~(ir_end <= ir_start)
    /\ ir_out' = IsolateRegion(ir_seq, ir_start, ir_end)
    /\ ir_pc' = "done"
    /\ UNCHANGED <<ir_seq, ir_start, ir_end>>
    /\ OthersUnchanged("ir")

IrNext == IrRaise \/ IrYield

SpecIsolate == IrInit /\ [][IrNext]_vars

\* C5: for every record and all integers 0 <= start < end, isolate_region
\* returns a sequence of the length of the input, equal to the input at the
\* positions of [start, end) and to the gap character everywhere else.
C5_IsolateRegionKeepsLength ==
    (ir_pc = "done" /\ 0 <= ir_start /\ ir_start < ir_end) =>
        /\ Len(ir_out) = Len(ir_seq)
        /\ \A p \in 1..Len(ir_out) :
               ir_out[p] = IF ir_start < p /\ p <= ir_end THEN ir_seq[p] ELSE "-"

----------------------------------------------------------------------------
(* strip_range (transform.py 461-480)                                      *)

MaxIdLen == 6       \* longest record id given to strip_range

SrChars == {"s", "/", "-", "0", "1"}
SrDescriptions == {"", "s/1-1 text"}

SrInit ==
    /\ sr_in \in [id : SeqsUpTo(SrChars, MaxIdLen), description : SrDescriptions]
    /\ sr_out = <<>>
    /\ sr_pc = "start"
    /\ OthersIdle("sr")

RECURSIVE DigitRun(_, _)
\* \d+ taken greedily at position p (1-based): the length of the longest
\* run of digits that starts there
DigitRun(s, p) ==
    IF p <= Len(s) /\ s[p] \in Digits THEN 1 + DigitRun(s, p + 1) ELSE 0

CharAt(s, p) == IF p >= 1 /\ p <= Len(s) THEN s[p] ELSE "end"

\* with (?P<id>.*) taking the first k characters, the rest of the pattern,
\* \/(?P<start>\d+)\-(?P<stop>\d+), matches right after them
CutRegexMatchesAfter(s, k) ==
    /\ CharAt(s, k + 1) = "/"
    /\ DigitRun(s, k + 2) >= 1
    /\ CharAt(s, k + 2 + DigitRun(s, k + 2)) = "-"
    /\ DigitRun(s, k + 3 + DigitRun(s, k + 2)) >= 1

CutRegexMatches(s) == \E k \in 0..Len(s) : CutRegexMatchesAfter(s, k)

\* cut_regex.match: the greedy .* keeps the longest prefix that lets the
\* rest match
CutRegexIdLen(s) ==
    CHOOSE k \in 0..Len(s) :
        /\ CutRegexMatchesAfter(s, k)
        /\ \A j \in 0..Len(s) : CutRegexMatchesAfter(s, j) => j <= k

GroupStart(s) ==
    LET k == CutRegexIdLen(s)
    IN DecimalValue(SubSeq(s, k + 2, k + 1 + DigitRun(s, k + 2)))

GroupStop(s) ==
    LET k == CutRegexIdLen(s)
        p == k + 3 + DigitRun(s, k + 2)
    IN DecimalValue(SubSeq(s, p, p + DigitRun(s, p) - 1))

\* name, as lines 471-478 leave it
StripRangeName(id) ==
    IF CutRegexMatches(id)
    THEN (IF GroupStart(id) > 0 /\ GroupStart(id) <= GroupStop(id)
          THEN SubSeq(id, 1, CutRegexIdLen(id))
          ELSE id)
    ELSE id

\* yield SeqRecord(record.seq, id=name, description='')
SrYield ==
    /\ sr_pc = "start"
    /\ sr_out' = [id |-> StripRangeName(sr_in.id), description |-> ""]
    /\ sr_pc' = "done"
    /\ UNCHANGED sr_in
    /\ OthersUnchanged("sr")

SrNext == SrYield

SpecStripRange == SrInit /\ [][SrNext]_vars

\* the whole id is <name>/<start>-<stop>: name is its first k characters
SrWholeIdForm(id, k) ==
    /\ CutRegexMatchesAfter(id, k)
    /\ k + 2 + DigitRun(id, k + 2) + DigitRun(id, k + 3 + DigitRun(id, k + 2)) = Len(id)

SrRangeValid(id, k) ==
    LET n1 == DigitRun(id, k + 2)
        start == DecimalValue(SubSeq(id, k + 2, k + 1 + n1))
        stop == DecimalValue(SubSeq(id, k + 3 + n1, Len(id)))
    IN start > 0 /\ start <= stop

\* C6: strip_range rewrites the id to <name> exactly when the whole id is
\* <name>/<start>-<stop> with start a positive integer and start <= stop;
\* every other id (no range suffix, start = 0, start > stop, text after the
\* range) comes out unchanged; the output description is always empty.
C6_StripRangeWholeId ==
    sr_pc = "done" =>
        /\ sr_out.description = ""
        /\ \A k \in 0..Len(sr_in.id) :
               (SrWholeIdForm(sr_in.id, k) /\ SrRangeValid(sr_in.id, k)) =>
                   sr_out.id = SubSeq(sr_in.id, 1, k)
        /\ (~\E k \in 0..Len(sr_in.id) :
                SrWholeIdForm(sr_in.id, k) /\ SrRangeValid(sr_in.id, k)) =>
                   sr_out.id = sr_in.id

----------------------------------------------------------------------------
(* gap_proportion and squeeze (transform.py 414-458)                       *)

MaxAlnLen == 2      \* longest sequence of the statistics stream
MaxStats == 2       \* longest statistics stream

\* sequences of the statistics stream: '.' is in GAP_CHARS but not in the
\* gap_chars that gap_proportion is called with
SqSeqs == SeqsUpTo({"A", "-"}, MaxAlnLen) \cup {<<".", "-">>}

SqRecA == [id |-> "a", description |-> "a first", seq |-> <<"A", "-", ".">>]
SqRecB == [id |-> "b", description |-> "", seq |-> <<"-", "C">>]
SqRecC == [id |-> "c", description |-> "c", seq |-> <<"G">>]
SqPrimaryStreams ==
    {<<>>, <<SqRecA>>, <<SqRecA, SqRecB>>, <<SqRecB, SqRecA>>, <<SqRecC, SqRecB>>,
     <<SqRecB, SqRecC>>}

\* gap_threshold, a fraction num/den
SqThresholds == {[num |-> 0, den |-> 1], [num |-> 1, den |-> 2], [num |-> 1, den |-> 1]}

SqInit ==
    /\ sq_stats_in \in SeqsUpTo(SqSeqs, MaxStats)
    /\ sq_stats = sq_stats_in
    /\ sq_input \in SqPrimaryStreams
    /\ sq_records = sq_input
    /\ sq_threshold \in SqThresholds
    /\ sq_aln_len = -1          \* aln_len = None
    /\ sq_gaps = <<>>
    /\ sq_i = -1                \* i is not bound before the loop
    /\ sq_keep = <<>>
    /\ sq_out = <<>>
    /\ sq_pc = "gap_loop"
    /\ OthersIdle("sq")

\* if char in gap_chars, with gap_chars = '-'
IsGapChar(c) == c = "-"

\* for j, char in enumerate(sequence.seq): if char in gap_chars: gaps[j] += 1
SqCountGaps(gaps, seq) ==
    [j \in 1..Len(gaps) |->
        IF j <= Len(seq) /\ IsGapChar(seq[j]) THEN gaps[j] + 1 ELSE gaps[j]]

\* one pass of gap_proportion's loop over a sequence of the expected length
SqGapStep ==
    /\ sq_pc = "gap_loop"
    /\ sq_stats /= <<>>
    /\ LET sequence == Head(sq_stats)
           first == sq_aln_len = -1
           gaps == IF first THEN [j \in 1..Len(sequence) |-> 0] ELSE sq_gaps
       IN /\ first \/ Len(sequence) = sq_aln_len
          /\ sq_aln_len' = IF first THEN Len(sequence) ELSE sq_aln_len
          /\ sq_gaps' = SqCountGaps(gaps, sequence)
    /\ sq_i' = sq_i + 1
    /\ sq_stats' = Tail(sq_stats)
    /\ UNCHANGED <<sq_stats_in, sq_input, sq_records, sq_threshold, sq_keep, sq_out, sq_pc>>
    /\ OthersUnchanged("sq")

\* raise ValueError("Unexpected sequence length ...")
SqLengthError ==
    /\ sq_pc = "gap_loop"
    /\ sq_stats /= <<>>
    /\ sq_aln_len /= -1
    /\ Len(Head(sq_stats)) /= sq_aln_len
    /\ sq_i' = sq_i + 1
    /\ sq_pc' = "ValueError"
    /\ UNCHANGED <<sq_stats_in, sq_stats, sq_input, sq_records, sq_threshold,
                   sq_aln_len, sq_gaps, sq_keep, sq_out>>
    /\ OthersUnchanged("sq")

\* g < gap_threshold for g = gaps / float(i + 1), in exact arithmetic
SqKeepsColumnAtThreshold(gaps, count, threshold) ==
    gaps * threshold.den <= threshold.num * count
SqKeepsColumn(gaps, count, threshold) ==
    gaps * threshold.den < threshold.num * count

\* the loop of gap_proportion is over: sequence_count = float(i + 1),
\* gap_props, and keep_columns in squeeze; i is unbound on an empty stream
SqGapFinish ==
    /\ sq_pc = "gap_loop"
    /\ sq_stats = <<>>
    /\ IF sq_i = -1
       THEN sq_pc' = "NameError" /\ UNCHANGED sq_keep
       ELSE /\ sq_keep' = [j \in 1..Len(sq_gaps) |->
                              SqKeepsColumn(sq_gaps[j], sq_i + 1, sq_threshold)]
            /\ sq_pc' = "emit"
    /\ UNCHANGED <<sq_stats_in, sq_stats, sq_input, sq_records, sq_threshold,
                   sq_aln_len, sq_gaps, sq_i, sq_out>>
    /\ OthersUnchanged("sq")

RECURSIVE Compress(_, _)
\* itertools.compress(data, selectors): ends with the shorter of the two
Compress(data, selectors) ==
    IF data = <<>> \/ selectors = <<>> THEN <<>>
    ELSE (IF Head(selectors) THEN <<Head(data)>> ELSE <<>>)
             \o Compress(Tail(data), Tail(selectors))

\* SeqRecord(Seq(''.join(squeezed)), id=record.id, description=record.description)
SqueezedRecord(record, keep) ==
    [id |-> record.id, description |-> record.description,
     seq |-> Compress(record.seq, keep)]

\* one pass of squeeze's loop
SqYield ==
    /\ sq_pc = "emit"
    /\ sq_records /= <<>>
    /\ sq_out' = Append(sq_out, SqueezedRecord(Head(sq_records), sq_keep))
    /\ sq_records' = Tail(sq_records)
    /\ UNCHANGED <<sq_stats_in, sq_stats, sq_input, sq_threshold, sq_aln_len,
                   sq_gaps, sq_i, sq_keep, sq_pc>>
    /\ OthersUnchanged("sq")

SqEnd ==
    /\ sq_pc = "emit"
    /\ sq_records = <<>>
    /\ sq_pc' = "done"
    /\ UNCHANGED <<sq_stats_in, sq_stats, sq_input, sq_records, sq_threshold,
                   sq_aln_len, sq_gaps, sq_i, sq_keep, sq_out>>
    /\ OthersUnchanged("sq")

SqNext == SqGapStep \/ SqLengthError \/ SqGapFinish \/ SqYield \/ SqEnd

SpecSqueeze == SqInit /\ [][SqNext]_vars

\* number of statistics records with a gap character at column j
SqGapCount(stats, j) == Cardinality({r \in 1..Len(stats) : stats[r][j] = "-"})

\* the columns whose proportion, gap count / record count, is strictly
\* below the threshold
SqColumnsBelow(stats, threshold) ==
    {j \in 1..Len(stats[1]) :
        SqGapCount(stats, j) * threshold.den < threshold.num * Len(stats)}

\* C7: with a non-empty statistics stream of uniform length L, squeeze
\* computes for each column j the proportion (records with a gap at j) /
\* (records) and emits for every primary record, in input order, id and
\* description unchanged, exactly the symbols at the columns whose
\* proportion is strictly below the threshold, in column order; a column
\* whose proportion is >= threshold is in no output record.
C7_SqueezeDropsGapColumns ==
    /\ sq_pc = "NameError" => sq_stats_in = <<>>
    /\ sq_pc = "ValueError" =>
           \E r \in 1..Len(sq_stats_in) : Len(sq_stats_in[r]) /= Len(sq_stats_in[1])
    /\ sq_pc \in {"emit", "done"} =>
        /\ sq_stats_in /= <<>>
        /\ \A r \in 1..Len(sq_stats_in) : Len(sq_stats_in[r]) = Len(sq_stats_in[1])
        /\ Len(sq_gaps) = Len(sq_stats_in[1])
        /\ \A j \in 1..Len(sq_gaps) : sq_gaps[j] = SqGapCount(sq_stats_in, j)
        /\ sq_i + 1 = Len(sq_stats_in)
        /\ Len(sq_out) = Len(sq_input) - Len(sq_records)
        /\ sq_pc = "done" => Len(sq_out) = Len(sq_input)
        /\ \A k \in 1..Len(sq_out) :
               /\ sq_out[k].id = sq_input[k].id
               /\ sq_out[k].description = sq_input[k].description
               /\ sq_out[k].seq =
                      AtIndices(sq_input[k].seq,
                                SqColumnsBelow(sq_stats_in, sq_threshold),
                                Len(sq_input[k].seq))

\* two records squeezed by statistics in which one column reaches the
\* threshold and another stays below it
C7_Witness ==
    /\ sq_pc = "done"
    /\ Len(sq_out) = 2
    /\ Len(sq_stats_in) = 2
    /\ sq_threshold = [num |-> 1, den |-> 2]
    /\ sq_keep = <<FALSE, TRUE>>
    /\ sq_gaps = <<1, 0>>

----------------------------------------------------------------------------
(* CodonWarningDict (transform.py 506-522)                                 *)

MaxLookups == 3     \* lookups made on one table

\* the codons looked up: AAA TTT A-A --- NNN AAN
CwCodons == { <<"A", "A", "A">>, <<"T", "T", "T">>, <<"A", "-", "A">>,
              <<"-", "-", "-">>, <<"N", "N", "N">>, <<"A", "A", "N">> }

\* forward.update(table.forward_table): the entries of the genetic code
\* among the codons of the model
CwForwardTable ==
    [c \in {<<"A", "A", "A">>, <<"T", "T", "T">>} |->
        IF c = <<"A", "A", "A">> THEN "K" ELSE "F"]

\* missing_char='X'
CwMissingChar == "X"

CwInit ==
    /\ cw_table = CwForwardTable
    /\ cw_log = <<>>
    /\ cw_history = <<>>
    /\ OthersIdle("cw")

\* table[key] with key in the table: __missing__ is not called
CwGetItemHit(key) ==
    /\ Len(cw_history) < MaxLookups
    /\ key \in DOMAIN cw_table
    /\ cw_history' = Append(cw_history,
           [codon |-> key, result |-> cw_table[key], warned |-> FALSE,
            stored |-> FALSE])
    /\ UNCHANGED <<cw_table, cw_log>>
    /\ OthersUnchanged("cw")

\* defaultdict.__missing__(key): self[key] = default_factory()
CwTableUnchanged(table, key) == table
CwTableWithDefault(table, key) ==
    [c \in DOMAIN table \cup {key} |-> IF c = key THEN CwMissingChar ELSE table[c]]

\* __missing__(key) with '-' in key
CwMissingGapped(key) ==
    /\ Len(cw_history) < MaxLookups
    /\ key \notin DOMAIN cw_table
    /\ Contains(key, "-")
    /\ LET warn == ~(key \in DOMAIN cw_table)       \* if not key in self
           table == CwTableWithDefault(cw_table, key)
       IN /\ cw_log' = IF warn THEN Append(cw_log, key) ELSE cw_log
          /\ cw_table' = table
          /\ cw_history' = Append(cw_history,
                 [codon |-> key, result |-> CwMissingChar, warned |-> warn,
                  stored |-> table /= cw_table])
    /\ OthersUnchanged("cw")

\* __missing__(key) without '-' in key: raise KeyError(key)
CwMissingKeyError(key) ==
    /\ Len(cw_history) < MaxLookups
    /\ key \notin DOMAIN cw_table
    /\ ~Contains(key, "-")
    /\ cw_history' = Append(cw_history,
           [codon |-> key, result |-> "KeyError", warned |-> FALSE, stored |-> FALSE])
    /\ UNCHANGED <<cw_table, cw_log>>
    /\ OthersUnchanged("cw")

CwNext ==
    \E key \in CwCodons :
        \/ CwGetItemHit(key)
        \/ CwMissingGapped(key)
        \/ CwMissingKeyError(key)

SpecCodon == CwInit /\ [][CwNext]_vars

----------------------------------------------------------------------------
(* _reverse_annotations and reverse_sequences (transform.py 221-254)       *)

MaxRevLen == 2      \* longest sequence, and longest annotation value

\* the values of a list, tuple or string of n entries: 1, 2, .., n
RvItems(n) == [k \in 1..n |-> k]

\* a value of record.annotations under the key "k": no entry, a list or
\* tuple, or a string
RvAnnotationValues ==
    {[kind |-> "none", items |-> <<>>]}
        \cup {[kind |-> kind, items |-> RvItems(n)] :
                 kind \in {"list", "str"}, n \in 0..MaxRevLen}

\* record.letter_annotations under the key "q": no entry, or one value per
\* letter of the sequence
RvLetterValues(seq) ==
    {[present |-> FALSE, items |-> <<>>], [present |-> TRUE, items |-> RvItems(Len(seq))]}

\* the records of the stream, but for their ids
RvRecordPool ==
    UNION { [name : {"n"}, description : {"", "1 text"}, seq : {seq},
             annotations : [k : RvAnnotationValues],
             letter_annotations : [q : RvLetterValues(seq)],
             features : {<<"gene">>}]
            : seq \in SeqsUpTo({"A", "C"}, MaxRevLen) }

\* the k-th record of the stream has the id k
RvWithId(record, id) ==
    [id |-> id, name |-> record.name, description |-> record.description,
     seq |-> record.seq, annotations |-> record.annotations,
     letter_annotations |-> record.letter_annotations, features |-> record.features]

RvInit ==
    /\ rv_in = <<>>
    /\ rv_mid = <<>>
    /\ rv_out = <<>>
    /\ rv_pulled = <<>>
    /\ rv_yielded = <<>>
    /\ OthersIdle("rv")

\* lines 227-232: a list or tuple as long as the record is reversed,
\* anything else is copied
RvAnnotation(v, length) ==
    IF v.kind = "list" /\ Len(v.items) = length
    THEN [v EXCEPT !.items = Reverse(v.items)]
    ELSE v

\* lines 236-238
RvLetterAnnotationDropped(v) == [present |-> FALSE, items |-> <<>>]
RvLetterAnnotation(v) == [v EXCEPT !.items = Reverse(v.items)]

\* SeqRecord(record.seq[::-1], id=record.id, name=record.name,
\*           description=record.description), then _reverse_annotations
ReverseRecord(record) ==
    [id |-> record.id, name |-> record.name, description |-> record.description,
     seq |-> Reverse(record.seq),
     annotations |-> [k |-> RvAnnotation(record.annotations.k, Len(record.seq))],
     letter_annotations |-> [q |-> RvLetterAnnotation(record.letter_annotations.q)],
     features |-> <<>>]

\* the consumer pulls one record through reverse_sequences(reverse_sequences(
\* records)): the inner generator pulls a record from the stream and yields
\* its reverse, the outer one yields the reverse of that
RvPull ==
    /\ Len(rv_pulled) < MaxRecords
    /\ \E r \in RvRecordPool :
          LET record == RvWithId(r, Len(rv_pulled) + 1)
          IN /\ rv_in' = record
             /\ rv_mid' = ReverseRecord(record)
             /\ rv_out' = ReverseRecord(ReverseRecord(record))
             /\ rv_pulled' = Append(rv_pulled, record.id)
             /\ rv_yielded' = Append(rv_yielded, ReverseRecord(ReverseRecord(record)).id)
    /\ OthersUnchanged("rv")

RvNext == RvPull

SpecReverse == RvInit /\ [][RvNext]_vars

\* C9: reverse_sequences applied twice returns, for every record whose
\* positional annotations are as long as its sequence, a record with the
\* same id, description, sequence, annotations and per-letter annotations,
\* in the same stream order.
C9_ReverseTwiceRestores ==
    rv_pulled /= <<>> =>
        /\ rv_out.id = rv_in.id
        /\ rv_out.description = rv_in.description
        /\ rv_out.seq = rv_in.seq
        /\ rv_out.annotations = rv_in.annotations
        /\ rv_out.letter_annotations = rv_in.letter_annotations
        /\ rv_yielded = rv_pulled

\* a record with a positional list and per-letter values that are not
\* palindromes, reversed once and restored by the second pass
C9_Witness ==
    /\ Len(rv_pulled) = 2
    /\ rv_in.seq = <<"A", "C">>
    /\ rv_in.annotations.k = [kind |-> "list", items |-> <<1, 2>>]
    /\ rv_in.letter_annotations.q = [present |-> TRUE, items |-> <<1, 2>>]
    /\ rv_mid.seq = <<"C", "A">>
    /\ rv_mid.annotations.k.items = <<2, 1>>
    /\ rv_mid.letter_annotations.q.items = <<2, 1>>
    /\ rv_out.seq = rv_in.seq

----------------------------------------------------------------------------
(* _update_id, name_append_suffix, name_insert_prefix (transform.py        *)
(* 289-325)                                                                *)

MaxRenames == 2     \* transforms applied to one record

\* ids and descriptions, as sequences of characters; "\\" is one backslash
\* and "LF" the newline character
UpRecords ==
    { [id |-> <<"s">>, description |-> <<"s", " ", "d">>],
      [id |-> <<"s">>, description |-> <<"s", "s">>],
      [id |-> <<"s">>, description |-> <<"d", " ", "s">>],
      [id |-> <<"s">>, description |-> <<>>],
      [id |-> <<>>, description |-> <<"d">>],
      [id |-> <<"s", "\\">>, description |-> <<"s", "\\", " ", "d">>] }

\* the suffix or prefix given to the transform
UpAffixes ==
    { <<"x">>, <<".", "1">>, <<"n">>, <<"\\", "n">>, <<"\\", "\\">>, <<"\\">>,
      <<"\\", "1">>, <<"\\", "x">> }

UpInit ==
    /\ up_rec \in UpRecords
    /\ up_prev = up_rec
    /\ up_new_id = up_rec.id
    /\ up_steps = 0
    /\ up_pc = "ok"
    /\ OthersIdle("up")

\* '^' + re.escape(old_id) matches at the start of the description
BeginsWith(text, prefix) == IsPrefix(prefix, text)

RECURSIVE TemplateOk(_)
\* re.sub takes its replacement as a template: a backslash must be followed
\* by a character, and by no group number, since the pattern has no group
TemplateOk(repl) ==
    IF repl = <<>> THEN TRUE
    ELSE IF Head(repl) /= "\\" THEN TemplateOk(Tail(repl))
    ELSE /\ Len(repl) >= 2
         /\ repl[2] \notin Digits
         /\ repl[2] /= "g"
         /\ TemplateOk(Tail(Tail(repl)))

RECURSIVE TemplateText(_)
\* the text a well-formed template stands for: \n is a newline, \\ one
\* backslash, an unknown escape is kept as it is written
TemplateText(repl) ==
    IF repl = <<>> THEN <<>>
    ELSE IF Head(repl) /= "\\" THEN <<Head(repl)>> \o TemplateText(Tail(repl))
    ELSE (CASE repl[2] = "n" -> <<"LF">>
            [] repl[2] = "\\" -> <<"\\">>
            [] OTHER -> <<"\\", repl[2]>>)
             \o TemplateText(Tail(Tail(repl)))

\* re.sub('^' + re.escape(old_id), new_id, description), when it returns
UpdatedDescription(old_id, new_id, description) ==
    IF BeginsWith(description, old_id)
    THEN TemplateText(new_id)
             \o SubSeq(description, Len(old_id) + 1, Len(description))
    ELSE description

\* _update_id(record, new_id): record.id is set before re.sub runs, and
\* re.sub compiles the template whether or not the pattern matches
UpdateId(new_id) ==
    /\ up_pc = "ok"
    /\ up_steps < MaxRenames
    /\ up_prev' = up_rec
    /\ up_new_id' = new_id
    /\ up_steps' = up_steps + 1
    /\ IF TemplateOk(new_id)
       THEN /\ up_rec' = [id |-> new_id,
                          description |->
                              UpdatedDescription(up_rec.id, new_id, up_rec.description)]
            /\ up_pc' = "ok"
       ELSE /\ up_rec' = [id |-> new_id, description |-> up_rec.description]
            /\ up_pc' = "error"
    /\ OthersUnchanged("up")

\* new_id = record.id + suffix
NameAppendSuffix == \E suffix \in UpAffixes : UpdateId(up_rec.id \o suffix)

\* new_id = prefix + record.id
NameInsertPrefix == \E prefix \in UpAffixes : UpdateId(prefix \o up_rec.id)

UpNext == NameAppendSuffix \/ NameInsertPrefix

SpecUpdateId == UpInit /\ [][UpNext]_vars

\* C11: name_append_suffix and name_insert_prefix set the id to old id +
\* suffix (prefix + old id) and, when the description begins with the old
\* id, replace that leading occurrence only, so that the description is the
\* new id followed by the unchanged remainder; a description that does not
\* begin with the old id is left untouched.  Hence a description that
\* begins with the id still does after any sequence of the two transforms.
C11_UpdateIdKeepsDescriptionPrefix ==
    up_steps > 0 =>
        /\ up_pc = "ok"
        /\ up_rec.id = up_new_id
        /\ BeginsWith(up_prev.description, up_prev.id) =>
               /\ up_rec.description =
                      up_new_id \o SubSeq(up_prev.description, Len(up_prev.id) + 1,
                                          Len(up_prev.description))
               /\ BeginsWith(up_rec.description, up_rec.id)
        /\ ~BeginsWith(up_prev.description, up_prev.id) =>
               up_rec.description = up_prev.description

====
